---- MODULE Spec2Model ----
(***************************************************************************)
(* State-machine model of MCPService (src/src/mcp.service.ts): discovery   *)
(* of annotated provider methods, start-up of the streaming adapter and    *)
(* of the optional stdio transport, the two HTTP entry points              *)
(* handleSSEConnection / handleMessages, and the shutdown sequence of      *)
(* onModuleDestroy.  Every `await` of the source is a suspension point:    *)
(* the part of a method that runs between two awaits is one action.        *)
(*                                                                         *)
(* NestSSEAdapter (@lib/transport/sse-transport) is not part of the        *)
(* available sources; its three methods used by the service are modelled   *)
(* from the design document (section 4.3).                                 *)
(* The MetadataKey enum (@lib/types/metadata.type) is not available        *)
(* either; its three members are modelled as three distinct keys.          *)
(***************************************************************************)
EXTENDS Integers, Sequences, FiniteSets, TLC

\* ------------------------------------------------------------------ bounds
MaxRequests == 3
MaxParams == 2

\* ------------------------------------------------------- program constants
ServiceUnavailable == 503
InternalError == 500
SessionNotFound == 404
Accepted == 202
StreamOk == 200
BadRequest == 400

None == "none"
NoToken == 0

\* errors a transport / the sink can raise; two values so that "the same
\* error" is distinguishable from "some error"
ConnectErrors == {"E_CONNECT"}

VARIABLES
    enableStdio,     \* options.enableStdio: "true", "false" or "absent"
    providers,       \* discoveryService.getProviders()
    decorators,      \* the decorators written on the method `handle` of the
                     \* provider class of DecoratedProviders, in the order
                     \* they are applied (<<>> where there is no such method)
    registry,        \* capabilities registered with the sink (McpServer)
    pc,              \* position of onModuleInit / onModuleDestroy
    stdioTransport,  \* MCPService.stdioTransport: "null" or "transport"
    sseAdapter,      \* MCPService.sseAdapter: "null" or "adapter"
    server,          \* the protocol sink (McpServer)
    adapter,         \* state of the NestSSEAdapter instance
    init,            \* bookkeeping of onModuleInit
    shutdown,        \* bookkeeping of onModuleDestroy
    reqs,            \* HTTP requests handed to the service: their position
    last,            \* the call of handleSSEConnection / handleMessages that
                     \* ran in the step just taken, with its response so far
                     \* (NoCall after any other step)
    invocation       \* the latest invocation of a registered handler

vars == <<enableStdio, providers, decorators, registry, pc, stdioTransport, sseAdapter,
          server, adapter, init, shutdown, reqs, last, invocation>>

config == <<enableStdio, providers, decorators>>

\* --------------------------------------------------------------- helpers
Range(s) == {s[i] : i \in 1..Len(s)}

RECURSIVE Remove(_, _)
Remove(s, x) ==
    IF s = <<>> THEN <<>>
    ELSE IF Head(s) = x THEN Remove(Tail(s), x)
    ELSE <<Head(s)>> \o Remove(Tail(s), x)

Last(s) == s[Len(s)]

\* ------------------------------------------- parameter normalisation
\* A parameter declaration is a JavaScript value.  `t` is what the code can
\* observe of it: "string" (s is the text), "number", "boolean", "null",
\* "undefined", "validator" (a Zod schema: kind and number of optional()
\* wrappers), "object" (an object without a `type` property that is no Zod
\* schema) or "definition" (an object with a `type` property: `of`, s, kind
\* and opt describe the value of that property, `optional` the value of the
\* `optional` property: "true", "false", "truthy" (e.g. 1) or "absent").
Declaration(t, s, kind, opt, of, optional) ==
    [t |-> t, s |-> s, kind |-> kind, opt |-> opt, of |-> of, optional |-> optional]

TypeName(s) == Declaration("string", s, "", 0, "", "absent")
Primitive(t) == Declaration(t, "", "", 0, "", "absent")
Validator(kind, opt) == Declaration("validator", "", kind, opt, "", "absent")
Definition(type, optional) ==
    Declaration("definition", type.s, type.kind, type.opt, type.t, optional)

\* the value of definition.type
TypeOf(definition) ==
    Declaration(definition.of, definition.s, definition.kind, definition.opt, "", "absent")

\* a normalised parameter: a Zod schema of some kind under `opt` optional()
\* wrappers, or (zod = FALSE) a value that is no Zod schema at all
Zod(kind) == [zod |-> TRUE, kind |-> kind, opt |-> 0]
NotZod == [zod |-> FALSE, kind |-> "", opt |-> 0]

\* String.prototype.endsWith  (mcp.service.ts:326)
endsWith(value, suffix) ==
    /\ Len(value) >= Len(suffix)
    /\ SubSeq(value, Len(value) - Len(suffix) + 1, Len(value)) = suffix

\* a slice that drops nothing
sliceKeepsMarker(value) == value

\* value.slice(0, -1)  (mcp.service.ts:327)
slice(value) == SubSeq(value, 1, Len(value) - 1)

\* getZodSchemaForType  (mcp.service.ts:367-383)
getZodSchemaForType(type) ==
    CASE type = "string" -> Zod("string")
      [] type = "number" -> Zod("number")
      [] type = "boolean" -> Zod("boolean")
      [] type = "array" -> Zod("array")
      [] type = "object" -> Zod("object")
      [] OTHER -> Zod("any")

\* `definition.type as z.ZodType` / `value as z.ZodType`: the value itself,
\* whatever it is  (mcp.service.ts:344, 352)
asZodType(value) ==
    IF value.t = "validator"
    THEN [zod |-> TRUE, kind |-> value.kind, opt |-> value.opt]
    ELSE NotZod

\* a test of the optional property for truthiness
isOptionalTruthy(definition) == definition.optional \in {"true", "truthy"}

\* `definition.optional === true`  (mcp.service.ts:347)
isOptional(definition) == definition.optional = "true"

\* `schema.optional()`: only a Zod schema has the method; on anything else
\* the call raises a TypeError  (mcp.service.ts:361)
optional(schema) ==
    IF schema.zod
    THEN [schema |-> [schema EXCEPT !.opt = @ + 1], error |-> None]
    ELSE [schema |-> schema, error |-> "E_TYPE_ERROR"]

\* the branch of the loop body taken for one declaration
\* (mcp.service.ts:322-358): the schema resolved, isOptional, and whether
\* the fall-back branch logged its warning
resolve(value) ==
    IF value.t = "string" /\ endsWith(value.s, "?")
    THEN [schema |-> getZodSchemaForType(slice(value.s)),
          isOptional |-> TRUE, warned |-> FALSE]
    ELSE IF value.t = "string"
    THEN [schema |-> getZodSchemaForType(value.s),
          isOptional |-> FALSE, warned |-> FALSE]
    ELSE IF value.t = "definition"
    THEN [schema |-> IF value.of = "string"
                     THEN getZodSchemaForType(value.s)
                     ELSE asZodType(TypeOf(value)),
          isOptional |-> isOptional(value), warned |-> FALSE]
    ELSE IF value.t \in {"object", "validator"}
    THEN [schema |-> asZodType(value), isOptional |-> FALSE, warned |-> FALSE]
    ELSE [schema |-> Zod("any"), isOptional |-> FALSE, warned |-> TRUE]

\* `zodSchema[key] = isOptional ? schema.optional() : schema`
\* (mcp.service.ts:361): the schema stored, and the error raised
stored(applied, warned) ==
    [schema |-> applied.schema, error |-> applied.error, warned |-> warned]

applyOptional(resolved) ==
    IF resolved.isOptional
    THEN stored(optional(resolved.schema), resolved.warned)
    ELSE stored([schema |-> resolved.schema, error |-> None], resolved.warned)

\* body of the loop of convertParametersToZod for one declaration
\* (mcp.service.ts:322-361)
convertParameter(value) == applyOptional(resolve(value))

\* the loop of convertParametersToZod over `converted`, the outcome of the
\* loop body for each entry: the keys stored before the first error, and
\* that error ("none": the method returns)
RECURSIVE collect(_, _, _, _)
collect(entries, converted, i, zodSchema) ==
    IF i > Len(entries) THEN [zodSchema |-> zodSchema, error |-> None]
    ELSE IF converted[i].error # None
    THEN [zodSchema |-> zodSchema, error |-> converted[i].error]
    ELSE collect(entries, converted, i + 1,
                 Append(zodSchema, [key |-> entries[i].key,
                                    schema |-> converted[i].schema]))

\* convertParametersToZod (mcp.service.ts:316-365) on the entries of the
\* declared object, in the order of Object.entries
convertEntries(entries) ==
    collect(entries,
            [i \in 1..Len(entries) |-> convertParameter(entries[i].value)], 1, <<>>)

\* `parameters` is <<>> (absent) or <<entries>>
convertParametersToZod(parameters) ==
    IF parameters = <<>> THEN [zodSchema |-> <<>>, error |-> None]
    ELSE convertEntries(parameters[1])

\* ------------------------------------------------------------ discovery
\* A string is a sequence of characters; " " is white space.
RECURSIVE TrimStart(_)
TrimStart(s) ==
    IF s = <<>> THEN <<>>
    ELSE IF Head(s) = " " THEN TrimStart(Tail(s))
    ELSE s

RECURSIVE Reverse(_)
Reverse(s) == IF s = <<>> THEN <<>> ELSE Reverse(Tail(s)) \o <<Head(s)>>

\* String.prototype.trim
Trim(s) == Reverse(TrimStart(Reverse(TrimStart(s))))

\* a test that does not trim
EmptyTemplateUntrimmed(template) ==
    \/ ~template.defined
    \/ template.text = <<>>

\* `!template || template.trim() === ''`  (mcp.service.ts:286); an absent
\* template is [defined |-> FALSE]
EmptyTemplate(template) ==
    \/ ~template.defined
    \/ template.text = <<>>
    \/ Trim(template.text) = <<>>

Text(chars) == [defined |-> TRUE, text |-> chars]
NoText == [defined |-> FALSE, text |-> <<>>]

\* descriptors as the decorators store them; `parameters` is <<>> (absent) or
\* <<entries>>, the entries of the declared object
Resource(name) ==
    [category |-> "resource", name |-> name, template |-> NoText, parameters |-> <<>>]
Tool(name) ==
    [category |-> "tool", name |-> name, template |-> NoText, parameters |-> <<>>]
Prompt(name, template) ==
    [category |-> "prompt", name |-> name, template |-> template, parameters |-> <<>>]
WithParameters(metadata, entries) == [metadata EXCEPT !.parameters = <<entries>>]

\* one method of a provider and its three metadata slots; a slot is <<>>
\* (reflector.get returns undefined) or <<descriptor>>
Method(m, r, t, p) == [method |-> m, resource |-> r, tool |-> t, prompt |-> p]

\* The metadata keys of the three slots (@lib/types/metadata.type).
MetadataKey ==
    [MCP_RESOURCE |-> "mcp:resource", MCP_TOOL |-> "mcp:tool",
     MCP_PROMPT |-> "mcp:prompt"]

\* the metadata of a method that carries no decorator: every key reads
\* undefined (<<>>)
NoMetadata == [key \in {MetadataKey.MCP_RESOURCE, MetadataKey.MCP_TOOL,
                        MetadataKey.MCP_PROMPT} |-> <<>>]

\* SetMetadata(key, value) of @nestjs/common applied to a method:
\* Reflect.defineMetadata(key, value, descriptor.value); a value already
\* defined under the key is replaced
SetMetadata(metadataKey, metadataValue, target) ==
    [target EXCEPT ![metadataKey] = <<metadataValue>>]

\* a decorator that stores the descriptor under one key whatever the category
DecoratorOneKey(category) == MetadataKey.MCP_RESOURCE

\* the key each decorator passes to SetMetadata
\* (resource.decorator.ts:15, tool.decorator.ts:13, prompt.decorator.ts:14)
DecoratorKey(category) ==
    CASE category = "resource" -> MetadataKey.MCP_RESOURCE
      [] category = "tool" -> MetadataKey.MCP_TOOL
      [] category = "prompt" -> MetadataKey.MCP_PROMPT

\* @Resource(props) / @Tool(props) / @Prompt(props) applied to a method
ResourceDecorator(props, target) == SetMetadata(DecoratorKey("resource"), props, target)
ToolDecorator(props, target) == SetMetadata(DecoratorKey("tool"), props, target)
PromptDecorator(props, target) == SetMetadata(DecoratorKey("prompt"), props, target)

\* one decorator as written on a method
Decorator(category, props) == [category |-> category, props |-> props]

Apply(decorator, target) ==
    CASE decorator.category = "resource" -> ResourceDecorator(decorator.props, target)
      [] decorator.category = "tool" -> ToolDecorator(decorator.props, target)
      [] decorator.category = "prompt" -> PromptDecorator(decorator.props, target)

\* the decorators of a method applied one after the other
RECURSIVE Decorate(_, _)
Decorate(applied, target) ==
    IF applied = <<>> THEN target
    ELSE Decorate(Tail(applied), Apply(Head(applied), target))

\* this.reflector.get(key, provider.instance[method])
getMetadata(key, target) == target[key]

\* the three reads of the scan for one method  (mcp.service.ts:188, 195, 202)
Reflected(m, target) ==
    Method(m, getMetadata(MetadataKey.MCP_RESOURCE, target),
              getMetadata(MetadataKey.MCP_TOOL, target),
              getMetadata(MetadataKey.MCP_PROMPT, target))

\* a descriptor with its description
Described(metadata, description) == ("description" :> description) @@ metadata

\* provider lists the model starts from: the tool and prompt of the README,
\* and a provider whose prompt has a blank template
CalculatorProviders ==
    << [instance |-> TRUE,
        methods |-> << Method("add", <<>>, <<Tool("add")>>, <<>>),
                       Method("greet", <<>>, <<>>,
                              <<Prompt("greeting", Text(<<"H", "i">>))>>) >>] >>

BlankPromptProviders ==
    << [instance |-> TRUE,
        methods |-> << Method("getUser", <<Resource("users")>>, <<>>, <<>>),
                       Method("blank", <<>>, <<>>,
                              <<Prompt("blank", Text(<<" ">>))>>) >>] >>

\* the module configurations the model starts from
Configurations ==
    { [enableStdio |-> "true", providers |-> CalculatorProviders],
      [enableStdio |-> "false", providers |-> CalculatorProviders],
      [enableStdio |-> "absent", providers |-> <<>>],
      [enableStdio |-> "true", providers |-> BlankPromptProviders] }

\* what the sink is handed by one registration call: the name, the schema
\* built from the declared parameters and the handler, which closes over
\* (instance, methodName)
Registration(category, metadata, instance, methodName, zodSchema) ==
    [category |-> category, name |-> metadata.name,
     instance |-> instance, method |-> methodName, schema |-> zodSchema]

\* The sink (McpServer of @modelcontextprotocol/sdk) is a library outside the
\* sources.  What it does with a (category, name) it already holds is its
\* own business: it raises, or it replaces the handler it holds.
SinkPolicies == {"rejects", "replaces"}

Held(regs, category, name) ==
    {k \in 1..Len(regs) : regs[k].category = category /\ regs[k].name = name}

\* this.server.resource / tool / prompt  (mcp.service.ts:218, 255, 291):
\* the registrations the sink holds after the call, and the error it raised
serverRegister(sink, regs, registration) ==
    LET held == Held(regs, registration.category, registration.name)
    IN IF held = {}
       THEN [regs |-> Append(regs, registration), error |-> None]
       ELSE IF sink = "rejects"
       THEN [regs |-> regs, error |-> "E_ALREADY_REGISTERED"]
       ELSE [regs |-> [k \in 1..Len(regs) |->
                          IF k \in held THEN registration ELSE regs[k]],
             error |-> None]

\* the call of the sink once the schema argument was evaluated: an error of
\* convertParametersToZod leaves the register method before the sink is
\* called
registerWith(sink, regs, category, metadata, instance, methodName, converted) ==
    IF converted.error # None
    THEN [regs |-> regs, error |-> converted.error]
    ELSE serverRegister(sink, regs,
             Registration(category, metadata, instance, methodName,
                          converted.zodSchema))

\* registerResource / registerTool / registerPrompt: the sink's registrations
\* after the call, and the error thrown ("none": no error)
registerResource(sink, regs, metadata, instance, methodName) ==
    registerWith(sink, regs, "resource", metadata, instance, methodName,
                 convertParametersToZod(metadata.parameters))

registerTool(sink, regs, metadata, instance, methodName) ==
    registerWith(sink, regs, "tool", metadata, instance, methodName,
                 convertParametersToZod(metadata.parameters))

registerPrompt(sink, regs, metadata, instance, methodName) ==
    IF EmptyTemplate(metadata.template)
    THEN [regs |-> regs, error |-> "E_EMPTY_TEMPLATE"]
    ELSE registerWith(sink, regs, "prompt", metadata, instance, methodName,
                      convertParametersToZod(metadata.parameters))

\* a loop body that registers the first slot found and skips the others
ScanMethodFirstSlot(sink, regs, i, m) ==
    IF m.resource # <<>>
    THEN registerResource(sink, regs, m.resource[1], i, m.method)
    ELSE IF m.tool # <<>>
    THEN registerTool(sink, regs, m.tool[1], i, m.method)
    ELSE IF m.prompt # <<>>
    THEN registerPrompt(sink, regs, m.prompt[1], i, m.method)
    ELSE [regs |-> regs, error |-> None]

\* body of the loop over the method names of one provider
\* (mcp.service.ts:186-207): the three slots in turn, until one throws
ScanMethod(sink, regs, i, m) ==
    LET r1 == IF m.resource # <<>>
              THEN registerResource(sink, regs, m.resource[1], i, m.method)
              ELSE [regs |-> regs, error |-> None]
        r2 == IF r1.error # None THEN r1
              ELSE IF m.tool # <<>>
              THEN registerTool(sink, r1.regs, m.tool[1], i, m.method)
              ELSE r1
        r3 == IF r2.error # None THEN r2
              ELSE IF m.prompt # <<>>
              THEN registerPrompt(sink, r2.regs, m.prompt[1], i, m.method)
              ELSE r2
    IN r3

RECURSIVE ScanMethods(_, _, _, _, _)
\* a loop that reads the first method name only
ScanMethodsFirstOnly(sink, regs, i, methods, j) ==
    IF j > Len(methods) \/ j > 1 THEN [regs |-> regs, error |-> None]
    ELSE LET r == ScanMethod(sink, regs, i, methods[j])
         IN IF r.error # None THEN r
            ELSE ScanMethods(sink, r.regs, i, methods, j + 1)

\* `for (const method of methods)`  (mcp.service.ts:186-207)
ScanMethods(sink, regs, i, methods, j) ==
    IF j > Len(methods) THEN [regs |-> regs, error |-> None]
    ELSE LET r == ScanMethod(sink, regs, i, methods[j])
         IN IF r.error # None THEN r
            ELSE ScanMethods(sink, r.regs, i, methods, j + 1)

\* scanAndRegisterProviders: the whole pass (it contains no await)
RECURSIVE scanAndRegisterProviders(_, _, _, _)
scanAndRegisterProviders(sink, regs, provs, i) ==
    IF i > Len(provs) THEN [regs |-> regs, error |-> None]
    ELSE IF ~provs[i].instance THEN scanAndRegisterProviders(sink, regs, provs, i + 1)
    ELSE LET r == ScanMethods(sink, regs, i, provs[i].methods, 1)
         IN IF r.error # None THEN r
            ELSE scanAndRegisterProviders(sink, r.regs, provs, i + 1)

\* ------------------------------------------------- handler wrappers
\* A JavaScript value a host method returns or is called with.  `t` is its
\* type; n, s, b, items and fields hold the number, the text, the boolean,
\* the array's elements and the object's own properties (a set of
\* <<key, value>> pairs with one pair per key).
Value(t, n, s, b, items, fields) ==
    [t |-> t, n |-> n, s |-> s, b |-> b, items |-> items, fields |-> fields]

Null == Value("null", 0, "", FALSE, <<>>, {})
Undefined == Value("undefined", 0, "", FALSE, <<>>, {})
Num(n) == Value("number", n, "", FALSE, <<>>, {})
Str(s) == Value("string", 0, s, FALSE, <<>>, {})
Bool(b) == Value("boolean", 0, "", b, <<>>, {})
Arr(items) == Value("array", 0, "", FALSE, items, {})
Obj(fields) == Value("object", 0, "", FALSE, <<>>, fields)

\* `!value` is false
Truthy(value) ==
    CASE value.t \in {"null", "undefined"} -> FALSE
      [] value.t = "number" -> value.n # 0
      [] value.t = "string" -> value.s # ""
      [] value.t = "boolean" -> value.b
      [] OTHER -> TRUE

isArray(value) == value.t = "array"

\* a coercion that prints JSON: a string keeps its quotes
StringAsJson(value) ==
    CASE value.t = "number" -> ToString(value.n)
      [] value.t = "string" -> "\"" \o value.s \o "\""
      [] value.t = "boolean" -> (IF value.b THEN "true" ELSE "false")
      [] OTHER -> "null"

\* String(value)  (mcp.service.ts:269)
String(value) ==
    CASE value.t = "number" -> ToString(value.n)
      [] value.t = "string" -> value.s
      [] value.t = "boolean" -> (IF value.b THEN "true" ELSE "false")
      [] value.t = "null" -> "null"
      [] value.t = "undefined" -> "undefined"
      [] OTHER -> "[object Object]"

\* what a host method does when it is invoked: it returns a value or throws
Returns(value) == [threw |-> FALSE, value |-> value, error |-> None]
Throws(error) == [threw |-> TRUE, value |-> Undefined, error |-> error]

\* what the sink gets back from a wrapper: the error raised to it ("none":
\* the wrapper returned), the lines logged, and the payload returned
\* (contents of a resource, content of a tool, fields of a prompt)
Response(raised, log, payload) ==
    [raised |-> raised, returned |-> raised = None, log |-> log, payload |-> payload]

LogLine(category, name, error) == [category |-> category, name |-> name, error |-> error]

\* a catch block that logs and returns normally
wrapperCatchSwallows(error) == None

\* `throw error` of the three catch blocks  (mcp.service.ts:240, 273, 307)
wrapperCatch(error) == error

\* `if (!result)`  (mcp.service.ts:231)
resourceResultMissing(result) == ~Truthy(result)

\* a check that lets undefined through
toolResultMissingOnlyNull(result) == result.t = "null"

\* `if (result === null || result === undefined)`  (mcp.service.ts:264)
toolResultMissing(result) == result.t \in {"null", "undefined"}

\* the handler registered by registerResource  (mcp.service.ts:225-242)
resourceHandler(name, outcome) ==
    LET error == IF outcome.threw THEN outcome.error
                 ELSE IF resourceResultMissing(outcome.value) THEN "E_NO_RESULT"
                 ELSE None
    IN IF error # None
       THEN Response(wrapperCatch(error), <<LogLine("resource", name, error)>>, <<>>)
       ELSE Response(None, <<>>,
                     IF isArray(outcome.value) THEN outcome.value.items
                     ELSE <<outcome.value>>)

\* the handler registered by registerTool  (mcp.service.ts:258-275)
toolHandler(name, outcome) ==
    LET error == IF outcome.threw THEN outcome.error
                 ELSE IF toolResultMissing(outcome.value) THEN "E_NO_RESULT"
                 ELSE None
    IN IF error # None
       THEN Response(wrapperCatch(error), <<LogLine("tool", name, error)>>, <<>>)
       ELSE Response(None, <<>>,
                     IF isArray(outcome.value) THEN outcome.value.items
                     ELSE <<[type |-> "text", text |-> String(outcome.value)]>>)

\* the own enumerable properties an object spread copies from a value: the
\* fields of an object, the indexed elements of an array, the indexed
\* characters of a string, nothing of any other value
ownEntries(value) ==
    CASE value.t = "object" -> value.fields
      [] value.t = "array" ->
           {<<ToString(i - 1), value.items[i]>> : i \in 1..Len(value.items)}
      [] value.t = "string" ->
           {<<ToString(i - 1), SubSeq(value.s, i, i)>> : i \in 1..Len(value.s)}
      [] OTHER -> {}

Keys(entries) == {e[1] : e \in entries}

\* a spread under which a property already present is kept
spreadKeepsTarget(target, source) ==
    target \cup {e \in ownEntries(source) : e[1] \notin Keys(target)}

\* `{ ...target, ...source }`: the properties of source are assigned over
\* those already copied
spread(target, source) ==
    {e \in target : e[1] \notin Keys(ownEntries(source))} \cup ownEntries(source)

\* the handler registered by registerPrompt  (mcp.service.ts:295-309)
promptHandler(name, params, outcome) ==
    IF outcome.threw
    THEN Response(wrapperCatch(outcome.error),
                  <<LogLine("prompt", name, outcome.error)>>, {})
    ELSE LET dynamicParams == outcome.value
         IN Response(None, <<>>,
                     spread(spread({}, params),
                            IF Truthy(dynamicParams) THEN dynamicParams ELSE Obj({})))

\* an invocation of a registered handler by the sink: which handler, with
\* what params, what the host method did, and what the sink got back
Invocation(category, name, params, outcome, response) ==
    [category |-> category, name |-> name, params |-> params,
     outcome |-> outcome, response |-> response]

NoInvocation ==
    Invocation("none", "", Undefined, Returns(Undefined), Response(None, <<>>, <<>>))

\* ------------------------------------------------------------ start-up
\* `if (this.options.enableStdio)`  (mcp.service.ts:166)
StdioEnabled(option) == option = "true"

\* a catch block that logs the error and does not throw it on
setupStdioCatchSwallows(error) == None

\* catch block of setupStdioTransport (mcp.service.ts:171-174): the error
\* that leaves the method
setupStdioCatch(error) == error

\* a request as it arrives: the response is fresh (no headers sent)
Call(i, kind, token) ==
    [req |-> i, kind |-> kind, token |-> token, session |-> 0,
     headersSent |-> FALSE, status |-> 0, errWrites |-> 0, lateWrite |-> FALSE,
     raised |-> FALSE, logged |-> FALSE, failed |-> FALSE,
     transportWrote |-> FALSE, pending |-> FALSE, resumed |-> FALSE,
     sessionsAtCall |-> 0, activeAtCall |-> {}, adapterAtCall |-> FALSE,
     destroyAtCall |-> FALSE]

NoCall == Call(0, "none", 0)

\* no call has just returned to the controller
Quiet == last.kind = "none" \/ last.pending

\* the service as its constructor leaves it, under module configuration c
Constructed(c) ==
    /\ enableStdio = c.enableStdio
    /\ providers = c.providers
    /\ registry = <<>>
    /\ pc = "Constructed"
    /\ stdioTransport = "null"
    /\ sseAdapter = "null"
    /\ server = [stdioConnected |-> FALSE, sessions |-> {}, connectCalls |-> 0,
                 closeCalls |-> 0, closed |-> FALSE]
    /\ adapter = [active |-> <<>>, nextId |-> 1, started |-> {}]
    /\ init = [stdioCreated |-> 0, stdioConnects |-> 0, connectError |-> None,
               error |-> None]
    /\ shutdown = [snapshot |-> <<>>, idx |-> 0, hadStdio |-> FALSE,
                   activeAtTeardown |-> <<>>, trace |-> <<>>, raised |-> FALSE]
    /\ reqs = [i \in 1..MaxRequests |-> [pc |-> "idle", session |-> 0]]
    /\ last = NoCall
    /\ invocation = NoInvocation

Init == \E c \in Configurations : Constructed(c) /\ decorators = <<>>

\* onModuleInit up to `await this.scanAndRegisterProviders()`
\* (mcp.service.ts:38-39)
InitScan ==
    /\ Quiet
    /\ pc = "Constructed"
    /\ \E sink \in SinkPolicies :
       LET r == scanAndRegisterProviders(sink, registry, providers, 1)
       IN /\ registry' = r.regs
          /\ IF r.error # None
             THEN /\ pc' = "InitFailed"
                  /\ init' = [init EXCEPT !.error = r.error]
             ELSE /\ pc' = "Scanned"
                  /\ UNCHANGED init
    /\ UNCHANGED <<config, invocation, stdioTransport, sseAdapter, server, adapter, shutdown,
                   reqs>>
    /\ last' = NoCall

\* onModuleInit after the scan: the adapter is created, then
\* setupStdioTransport runs up to `await this.server.connect(...)`
\* (mcp.service.ts:42-49, 164-168)
InitTransports ==
    /\ Quiet
    /\ pc = "Scanned"
    /\ sseAdapter' = "adapter"
    /\ IF StdioEnabled(enableStdio)
       THEN /\ stdioTransport' = "transport"
            /\ server' = [server EXCEPT !.stdioConnected = TRUE,
                                        !.connectCalls = @ + 1]
            /\ init' = [init EXCEPT !.stdioCreated = @ + 1, !.stdioConnects = @ + 1]
            /\ pc' = "StdioConnecting"
       ELSE /\ pc' = "Running"
            /\ UNCHANGED <<stdioTransport, server, init>>
    /\ UNCHANGED <<config, invocation, registry, adapter, shutdown, reqs>>
    /\ last' = NoCall

\* `await this.server.connect(this.stdioTransport)` resolves or rejects
\* (mcp.service.ts:168-174)
StdioConnectDone ==
    /\ Quiet
    /\ pc = "StdioConnecting"
    /\ \/ /\ pc' = "Running"
          /\ UNCHANGED init
       \/ \E e \in ConnectErrors :
            /\ pc' = "InitFailed"
            /\ init' = [init EXCEPT !.connectError = e, !.error = setupStdioCatch(e)]
    /\ UNCHANGED <<config, invocation, registry, stdioTransport, sseAdapter, server, adapter,
                   shutdown, reqs>>
    /\ last' = NoCall

\* ------------------------------------------- NestSSEAdapter (section 4.3)
\* an adapter that numbers a session by its position in the active set
handleSSEReusesId(a) ==
    [a EXCEPT !.active = Append(@, Len(a.active) + 1), !.nextId = @ + 1]

\* openSession: a new session id is allocated and the transport is recorded
\* in the active set (not started yet)
handleSSE(a) ==
    [a EXCEPT !.active = Append(@, a.nextId), !.nextId = @ + 1]

getActiveTransports(a) == a.active

\* an adapter that does not compare the correlation token
routeMessageIgnoresToken(a, token) ==
    IF a.active = <<>>
    THEN [status |-> ServiceUnavailable, target |-> 0]
    ELSE [status |-> 0,
          target |-> IF token \in Range(a.active) THEN token ELSE Last(a.active)]

\* routeMessage, up to the call of the transport's entry point: the status
\* the adapter answers with (0: none) and the session the request is
\* forwarded to (0: none)
routeMessage(a, token) ==
    IF a.active = <<>>
    THEN [status |-> ServiceUnavailable, target |-> 0]
    ELSE IF token # NoToken /\ token \notin Range(a.active)
    THEN [status |-> SessionNotFound, target |-> 0]
    ELSE [status |-> 0, target |-> IF token = NoToken THEN Last(a.active) ELSE token]

\* a session's transport closes: open -> false, removed from the active set
closeTransport(a, s) ==
    [a EXCEPT !.active = Remove(@, s)]

Open(s) == s \in Range(adapter.active)

\* ------------------------------------------------------------- shutdown
DestroyBegun == pc \in {"StdioClosing", "SessionClosing", "SinkClosing", "Closed"}

\* `if (!this.sseAdapter)`  (mcp.service.ts:66, 99, 135)
adapterMissing(ref) == ref = "null"

\* this.stdioTransport after `await this.stdioTransport.close()` returned
\* (ok) or threw  (mcp.service.ts:57-62)
stdioAfterClose(ok, ref) == IF ok THEN "null" ELSE ref

\* a stdio catch block that throws the error on
destroyRethrowsStdio(step) == step = "stdio"

\* the catch blocks of onModuleDestroy (mcp.service.ts:60-62, 75-77, 92-94)
\* log the error; TRUE would mean the error leaves onModuleDestroy
destroyRethrows(step) == FALSE

\* a loop that stops one transport early
moreTransportsOffByOne(snapshot, idx) == idx < Len(snapshot) - 1

\* `for (const transport of activeTransports)`: is there a transport after
\* position idx  (mcp.service.ts:72)
moreTransports(snapshot, idx) == idx < Len(snapshot)

Event(ev, step, id) == [ev |-> ev, step |-> step, id |-> id]

\* onModuleDestroy is left by an exception
DestroyAbort(sd) ==
    /\ pc' = "Closed"
    /\ shutdown' = [sd EXCEPT !.raised = TRUE]

\* mcp.service.ts:87-90, up to `await this.server.close()`
BeginSinkClose(sd) ==
    /\ pc' = "SinkClosing"
    /\ server' = [server EXCEPT !.closeCalls = @ + 1]
    /\ shutdown' = [sd EXCEPT !.trace = Append(@, Event("start", "sink", 0))]

\* mcp.service.ts:65-81, up to the first `await transport.close()`
TeardownSessions(sd) ==
    LET snap == IF adapterMissing(sseAdapter) THEN <<>>
                ELSE getActiveTransports(adapter)
        sd1 == [sd EXCEPT !.snapshot = snap, !.activeAtTeardown = adapter.active]
    IN IF moreTransports(snap, 0)
       THEN /\ pc' = "SessionClosing"
            /\ shutdown' = [sd1 EXCEPT !.idx = 1,
                              !.trace = Append(@, Event("start", "session", snap[1]))]
            /\ UNCHANGED <<sseAdapter, server>>
       ELSE /\ sseAdapter' = "null"
            /\ BeginSinkClose(sd1)

\* onModuleDestroy up to its first await  (mcp.service.ts:52-57)
DestroyBegin ==
    /\ Quiet
    /\ pc \in {"Running", "InitFailed"}
    /\ LET sd == [shutdown EXCEPT !.hadStdio = (stdioTransport # "null")]
       IN IF stdioTransport # "null"
          THEN /\ pc' = "StdioClosing"
               /\ shutdown' = [sd EXCEPT !.trace = Append(@, Event("start", "stdio", 0))]
               /\ UNCHANGED <<sseAdapter, server>>
          ELSE TeardownSessions(sd)
    /\ UNCHANGED <<config, invocation, registry, stdioTransport, adapter, init, reqs>>
    /\ last' = NoCall

\* `await this.stdioTransport.close()` returns or throws, and the method
\* runs on to its next await  (mcp.service.ts:57-74)
StdioCloseDone ==
    /\ Quiet
    /\ pc = "StdioClosing"
    /\ \E ok \in BOOLEAN :
         LET sd == [shutdown EXCEPT !.trace = Append(@, Event("end", "stdio", 0))]
         IN /\ stdioTransport' = stdioAfterClose(ok, stdioTransport)
            /\ IF ~ok /\ destroyRethrows("stdio")
               THEN DestroyAbort(sd) /\ UNCHANGED <<sseAdapter, server>>
               ELSE TeardownSessions(sd)
    /\ UNCHANGED <<config, invocation, registry, adapter, init, reqs>>
    /\ last' = NoCall

\* `await transport.close()` of the loop returns or throws, and the method
\* runs on to its next await  (mcp.service.ts:72-90)
SessionCloseDone ==
    /\ Quiet
    /\ pc = "SessionClosing"
    /\ \E ok \in BOOLEAN :
         LET s == shutdown.snapshot[shutdown.idx]
             sd == [shutdown EXCEPT !.trace = Append(@, Event("end", "session", s))]
         IN /\ adapter' = IF ok THEN closeTransport(adapter, s) ELSE adapter
            /\ IF ~ok /\ destroyRethrows("session")
               THEN DestroyAbort(sd) /\ UNCHANGED <<sseAdapter, server>>
               ELSE IF moreTransports(shutdown.snapshot, shutdown.idx)
               THEN /\ pc' = "SessionClosing"
                    /\ shutdown' = [sd EXCEPT !.idx = @ + 1,
                          !.trace = Append(@, Event("start", "session",
                                              shutdown.snapshot[shutdown.idx + 1]))]
                    /\ UNCHANGED <<sseAdapter, server>>
               ELSE /\ sseAdapter' = "null"
                    /\ BeginSinkClose(sd)
    /\ UNCHANGED <<config, invocation, registry, stdioTransport, init, reqs>>
    /\ last' = NoCall

\* `await this.server.close()` returns or throws  (mcp.service.ts:90-95)
SinkCloseDone ==
    /\ Quiet
    /\ pc = "SinkClosing"
    /\ \E ok \in BOOLEAN :
         LET sd == [shutdown EXCEPT !.trace = Append(@, Event("end", "sink", 0))]
         IN /\ server' = [server EXCEPT !.closed = ok]
            /\ IF ~ok /\ destroyRethrows("sink")
               THEN DestroyAbort(sd)
               ELSE /\ pc' = "Closed"
                    /\ shutdown' = sd
    /\ UNCHANGED <<config, invocation, registry, stdioTransport, sseAdapter, adapter, init,
                   reqs>>
    /\ last' = NoCall

\* ------------------------------------------------------------- requests
\* the guard with its negation missing
writeErrorInverted(r, code) ==
    IF r.headersSent
    THEN [r EXCEPT !.status = code, !.errWrites = @ + 1, !.lateWrite = TRUE]
    ELSE r

\* the write without its guard
writeErrorUnguarded(r, code) ==
    [r EXCEPT !.status = code, !.headersSent = TRUE, !.errWrites = @ + 1,
              !.lateWrite = r.headersSent]

\* `if (!res.headersSent) { res.status(code).json(...) }`
\* (mcp.service.ts:103-108, 124-129, 139-144, 155-160)
writeError(r, code) ==
    IF ~r.headersSent
    THEN [r EXCEPT !.status = code, !.headersSent = TRUE, !.errWrites = @ + 1]
    ELSE r

\* a handleMessages catch block that throws the error on
handlerRethrowsMessages(kind) == kind = "msg"

\* the catch blocks of handleSSEConnection and handleMessages
\* (mcp.service.ts:120-130, 150-161) log the error and answer; TRUE would
\* mean the error leaves the method
handlerRethrows(kind) == FALSE

\* a catch block that answers 500 without looking at the headers
handlerCatchUnguarded(r) ==
    [writeErrorUnguarded([r EXCEPT !.logged = TRUE, !.failed = TRUE], InternalError)
        EXCEPT !.raised = handlerRethrows(r.kind)]

\* what the catch block of a handler does with the call r
handlerCatch(r) ==
    [writeError([r EXCEPT !.logged = TRUE, !.failed = TRUE], InternalError)
        EXCEPT !.raised = handlerRethrows(r.kind)]

\* the 503 branch  (mcp.service.ts:99-110, 135-146)
unavailable(r) ==
    writeError([r EXCEPT !.logged = TRUE], ServiceUnavailable)

\* a service that takes a request only when no earlier one is suspended
MayBeginSerial(i) ==
    /\ Quiet
    /\ reqs[i].pc = "idle"
    /\ IF i = 1 THEN TRUE ELSE reqs[i - 1].pc = "done"

\* requests are numbered in the order they arrive; nothing of the service
\* holds back a request while earlier ones are suspended on their awaits
\* (mcp.service.ts:98, 134)
MayBegin(i) ==
    /\ Quiet
    /\ reqs[i].pc = "idle"
    /\ IF i = 1 THEN TRUE ELSE reqs[i - 1].pc # "idle"

\* the call as it arrives, with what holds at that time
Arrive(i, kind, token) ==
    [Call(i, kind, token) EXCEPT !.sessionsAtCall = adapter.nextId - 1,
                                 !.activeAtCall = Range(adapter.active),
                                 !.adapterAtCall = (sseAdapter # "null"),
                                 !.destroyAtCall = DestroyBegun]

Returned(i, r) ==
    /\ reqs' = [reqs EXCEPT ![i] = [pc |-> "done", session |-> 0]]
    /\ last' = r

Suspended(i, position, r, s) ==
    /\ reqs' = [reqs EXCEPT ![i] = [pc |-> position, session |-> s]]
    /\ last' = [r EXCEPT !.session = s, !.pending = TRUE]

\* handleSSEConnection up to `await this.server.connect(transport)`
\* (mcp.service.ts:98-118)
handleSSEConnection(i) ==
    /\ MayBegin(i)
    /\ LET r == Arrive(i, "sse", NoToken)
       IN IF adapterMissing(sseAdapter)
          THEN /\ Returned(i, unavailable(r))
               /\ UNCHANGED <<adapter, server>>
          ELSE \/ \* this.sseAdapter.handleSSE throws
                  /\ Returned(i, handlerCatch(r))
                  /\ UNCHANGED <<adapter, server>>
               \/ \* the transport is created and handed to server.connect
                  LET created == handleSSE(adapter)
                      transport == Last(created.active)
                  IN /\ adapter' = created
                     /\ server' = [server EXCEPT !.sessions = @ \cup {transport},
                                                 !.connectCalls = @ + 1]
                     /\ Suspended(i, "connecting", r, transport)
    /\ UNCHANGED <<config, invocation, registry, pc, stdioTransport, sseAdapter, init, shutdown>>

\* `await this.server.connect(transport)` resolves (the transport has
\* started and written the stream headers) or rejects, before or after the
\* headers were sent  (mcp.service.ts:118-130)
SSEConnectDone(i) ==
    /\ Quiet
    /\ reqs[i].pc = "connecting"
    /\ \E outcome \in {"ok", "failEarly", "failLate"} :
         LET r == [Call(i, "sse", NoToken) EXCEPT !.session = reqs[i].session,
                                                  !.resumed = TRUE]
             sent == [r EXCEPT !.headersSent = TRUE, !.status = StreamOk,
                               !.transportWrote = TRUE]
         IN CASE outcome = "ok" ->
                   /\ Returned(i, sent)
                   /\ adapter' = [adapter EXCEPT !.started = @ \cup {r.session}]
              [] outcome = "failEarly" ->
                   /\ Returned(i, handlerCatch(r))
                   /\ UNCHANGED adapter
              [] outcome = "failLate" ->
                   /\ Returned(i, handlerCatch(sent))
                   /\ UNCHANGED adapter
    /\ UNCHANGED <<config, invocation, registry, pc, stdioTransport, sseAdapter, server, init,
                   shutdown>>

\* handleMessages up to the await inside `this.sseAdapter.handleMessages`
\* (mcp.service.ts:134-149)
handleMessages(i) ==
    /\ MayBegin(i)
    /\ \E token \in 0..adapter.nextId :
         LET r == Arrive(i, "msg", token)
             route == routeMessage(adapter, token)
         IN IF adapterMissing(sseAdapter)
            THEN Returned(i, unavailable(r))
            ELSE IF route.target = 0
            THEN \* the adapter answers itself
                 Returned(i, [r EXCEPT !.status = route.status, !.headersSent = TRUE,
                                       !.transportWrote = TRUE])
            ELSE \* forwarded to the transport's message entry point
                 Suspended(i, "forwarding", r, route.target)
    /\ UNCHANGED <<config, invocation, registry, pc, stdioTransport, sseAdapter, server, adapter,
                   init, shutdown>>

\* `await this.sseAdapter.handleMessages(req, res)` resolves (the transport
\* accepted the message) or rejects, before or after a response was written
\* (mcp.service.ts:149-161)
MessagesDone(i) ==
    /\ Quiet
    /\ reqs[i].pc = "forwarding"
    /\ \E outcome \in {"ok", "failEarly", "failLate"} :
         LET r == [Call(i, "msg", NoToken) EXCEPT !.session = reqs[i].session,
                                                  !.resumed = TRUE]
         IN CASE outcome = "ok" ->
                   Returned(i, [r EXCEPT !.headersSent = TRUE, !.status = Accepted,
                                         !.transportWrote = TRUE])
              [] outcome = "failEarly" ->
                   Returned(i, handlerCatch(r))
              [] outcome = "failLate" ->
                   Returned(i, handlerCatch([r EXCEPT !.headersSent = TRUE,
                                                      !.status = BadRequest,
                                                      !.transportWrote = TRUE]))
    /\ UNCHANGED <<config, invocation, registry, pc, stdioTransport, sseAdapter, server, adapter,
                   init, shutdown>>

\* the client of a started session goes away and its transport closes
ClientDisconnect(s) ==
    /\ Quiet
    /\ Open(s)
    /\ s \in adapter.started
    /\ adapter' = closeTransport(adapter, s)
    /\ UNCHANGED <<config, invocation, registry, pc, stdioTransport, sseAdapter, server, init,
                   shutdown, reqs>>
    /\ last' = NoCall

\* the controller's `await this.mcpService.handle...(req, res)` resumes and
\* the route handler returns  (mcp.controller.ts:15-25)
controllerReturn ==
    /\ ~Quiet
    /\ last' = NoCall
    /\ UNCHANGED <<config, invocation, registry, pc, stdioTransport, sseAdapter, server, adapter,
                   init, shutdown, reqs>>

\* ---------------------------------------------------------- specification
Next ==
    \/ controllerReturn
    \/ InitScan
    \/ InitTransports
    \/ StdioConnectDone
    \/ DestroyBegin
    \/ StdioCloseDone
    \/ SessionCloseDone
    \/ SinkCloseDone
    \/ \E i \in 1..MaxRequests : handleSSEConnection(i)
    \/ \E i \in 1..MaxRequests : SSEConnectDone(i)
    \/ \E i \in 1..MaxRequests : handleMessages(i)
    \/ \E i \in 1..MaxRequests : MessagesDone(i)
    \/ \E s \in 1..MaxRequests : ClientDisconnect(s)

Spec == Init /\ [][Next]_vars

\* ------------------------------------------- capabilities in service
\* the type names of SimpleParameterType  (types/parameter.type.ts:6)
SimpleParameterTypes == {"string", "number", "boolean", "array", "object"}

\* declaration values a `parameters` object is built from: the five shapes
\* of ParameterSchema (types/parameter.type.ts:20-31) and values outside it
Declarations ==
    {TypeName(t) : t \in SimpleParameterTypes}
    \cup {TypeName("string?"), TypeName("number?"), TypeName("date"), TypeName("date?")}
    \cup {Primitive("number"), Primitive("null"), Primitive("undefined"),
          Primitive("object")}
    \cup {Validator("string", 0), Validator("string", 1)}
    \cup {Definition(TypeName("string"), o) : o \in {"absent", "true", "truthy"}}
    \cup {Definition(TypeName("date"), "true")}
    \cup {Definition(Validator("string", 0), o) : o \in {"absent", "true"}}
    \cup {Definition(Primitive("number"), o) : o \in {"absent", "true"}}
    \cup {Definition(Primitive("undefined"), "true")}

Key(i) == "p" \o ToString(i)

\* the entries of the `parameters` object that declares d[i] under key i
Entries(d) == [i \in 1..Len(d) |-> [key |-> Key(i), value |-> d[i]]]

\* provider lists of the capability scenarios: one capability of each
\* category; two tools and two prompts of one name; capabilities with an
\* empty name; a provider without instance next to a live one; a prompt
\* without a usable template, with stdio enabled; a tool with declared
\* parameters
LibraryProviders ==
    << [instance |-> TRUE,
        methods |-> << Method("getFile", <<Resource("files")>>, <<>>, <<>>),
                       Method("add", <<>>, <<Tool("add")>>, <<>>),
                       Method("greet", <<>>, <<>>,
                              <<Prompt("greeting", Text(<<"H", "i">>))>>) >>] >>

DuplicateProviders ==
    << [instance |-> TRUE,
        methods |-> << Method("add", <<>>, <<Tool("add")>>, <<>>),
                       Method("plus", <<>>, <<Tool("add")>>, <<>>) >>],
       [instance |-> TRUE,
        methods |-> << Method("hello", <<>>, <<>>,
                              <<Prompt("greeting", Text(<<"H", "i">>))>>),
                       Method("salute", <<Resource("greeting")>>, <<>>,
                              <<Prompt("greeting", Text(<<"Y", "o">>))>>) >>] >>

EmptyNameProviders(category) ==
    << [instance |-> TRUE,
        methods |-> << CASE category = "resource" ->
                              Method("anonymous", <<Resource("")>>, <<>>, <<>>)
                         [] category = "tool" ->
                              Method("anonymous", <<>>, <<Tool("")>>, <<>>)
                         [] OTHER ->
                              Method("anonymous", <<>>, <<>>,
                                     <<Prompt("", Text(<<"H", "i">>))>>) >>] >>

AbsentInstanceProviders ==
    << [instance |-> FALSE,
        methods |-> << Method("ghost", <<>>, <<Tool("ghost")>>, <<>>) >>],
       [instance |-> TRUE,
        methods |-> << Method("add", <<>>, <<Tool("add")>>, <<>>) >>] >>

\* templates that are absent, empty or white space only
BlankTemplates == {NoText, Text(<<>>), Text(<<" ">>), Text(<<" ", " ">>)}

UntemplatedProviders(template) ==
    << [instance |-> TRUE,
        methods |-> << Method("getUser", <<Resource("users")>>, <<>>, <<>>),
                       Method("blank", <<>>, <<>>, <<Prompt("blank", template)>>),
                       Method("late", <<>>, <<Tool("late")>>, <<>>) >>] >>

\* a provider whose method `handle` carries the decorators `applied`, next
\* to a method without decorator
DecoratedProviders(applied) ==
    << [instance |-> TRUE,
        methods |-> << Reflected("handle", Decorate(applied, NoMetadata)),
                       Reflected("plain", NoMetadata) >>] >>

\* the decorators a method is given in these scenarios: one of each
\* category, and a second tool
Decorators ==
    {Decorator("resource", Described(Resource("files"), "Reads a file")),
     Decorator("tool", Described(WithParameters(Tool("add"),
                                     <<[key |-> "a", value |-> TypeName("number")]>>),
                                 "Adds")),
     Decorator("tool", Described(Tool("sum"), "Sums")),
     Decorator("prompt", Described(Prompt("greeting", Text(<<"H", "i">>)), "Greets"))}

MaxDecorators == 3

DeclaredProviders(entries) ==
    << [instance |-> TRUE,
        methods |-> << Method("declared", <<>>,
                              <<WithParameters(Tool("declared"), entries)>>,
                              <<>>) >>] >>

CapabilityConfigurations ==
    {[enableStdio |-> "absent", providers |-> p] :
        p \in {LibraryProviders, DuplicateProviders, AbsentInstanceProviders}
              \cup {EmptyNameProviders(c) : c \in {"resource", "tool", "prompt"}}}
    \cup {[enableStdio |-> "true", providers |-> UntemplatedProviders(t)] :
             t \in BlankTemplates}

\* a capability scenario, a tool that declares up to MaxParams parameters,
\* or a method under up to MaxDecorators decorators
CapabilityInit ==
    \/ \E c \in CapabilityConfigurations : Constructed(c) /\ decorators = <<>>
    \/ \E n \in 0..MaxParams : \E d \in [1..n -> Declarations] :
         /\ Constructed([enableStdio |-> "absent",
                         providers |-> DeclaredProviders(Entries(d))])
         /\ decorators = <<>>
    \/ \E n \in 1..MaxDecorators : \E applied \in [1..n -> Decorators] :
         /\ Constructed([enableStdio |-> "absent",
                         providers |-> DecoratedProviders(applied)])
         /\ decorators = applied

\* what a host method may do when the sink invokes it
HostErrors == {"E_HOST_A", "E_HOST_B"}

Results ==
    {Null, Undefined, Num(0), Num(5), Str(""), Str("ok"), Bool(FALSE), Bool(TRUE),
     Arr(<<>>), Arr(<<"e1", "e2">>), Obj({})}

Outcomes == {Returns(v) : v \in Results} \cup {Throws(e) : e \in HostErrors}

\* objects over the keys a and b: params of a prompt call, fields a prompt
\* method returns
Objects ==
    {Obj({<<"a", va>>}) : va \in {"1", "2"}}
    \cup {Obj({<<"b", vb>>}) : vb \in {"1", "2"}}
    \cup {Obj({<<"a", va>>, <<"b", vb>>}) : va \in {"1"}, vb \in {"1", "2"}}
    \cup {Obj({})}

PromptOutcomes ==
    {Returns(v) : v \in Objects \cup {Null, Undefined}}
    \cup {Throws(e) : e \in HostErrors}

\* the sink serves invocations once start-up is over
Serving == pc = "Running" /\ ~server.closed

\* the sink invokes the handler it holds for a resource / a tool / a prompt
InvokeResource ==
    /\ Serving
    /\ \E k \in 1..Len(registry), o \in Outcomes :
         /\ registry[k].category = "resource"
         /\ invocation' = Invocation("resource", registry[k].name, Undefined, o,
                                     resourceHandler(registry[k].name, o))
    /\ UNCHANGED <<config, registry, pc, stdioTransport, sseAdapter, server, adapter,
                   init, shutdown, reqs, last>>

InvokeTool ==
    /\ Serving
    /\ \E k \in 1..Len(registry), o \in Outcomes :
         /\ registry[k].category = "tool"
         /\ invocation' = Invocation("tool", registry[k].name, Undefined, o,
                                     toolHandler(registry[k].name, o))
    /\ UNCHANGED <<config, registry, pc, stdioTransport, sseAdapter, server, adapter,
                   init, shutdown, reqs, last>>

InvokePrompt ==
    /\ Serving
    /\ \E k \in 1..Len(registry), params \in Objects \cup {Undefined},
          o \in PromptOutcomes :
         /\ registry[k].category = "prompt"
         /\ invocation' = Invocation("prompt", registry[k].name, params, o,
                                     promptHandler(registry[k].name, params, o))
    /\ UNCHANGED <<config, registry, pc, stdioTransport, sseAdapter, server, adapter,
                   init, shutdown, reqs, last>>

CapabilityNext ==
    \/ InitScan
    \/ InitTransports
    \/ InvokeResource
    \/ InvokeTool
    \/ InvokePrompt

CapabilitySpec == CapabilityInit /\ [][CapabilityNext]_vars

\* ================================================================ claims
TraceHas(ev, step, id) ==
    \E k \in 1..Len(shutdown.trace) : shutdown.trace[k] = Event(ev, step, id)

Phase(step) == CASE step = "stdio" -> 1 [] step = "session" -> 2 [] step = "sink" -> 3

\* the close started at position j of the trace has ended at position j + 1:
\* no other close starts, and nothing else of the shutdown happens, in between
CloseEndsNext(j) ==
    /\ j < Len(shutdown.trace)
    /\ shutdown.trace[j + 1] = Event("end", shutdown.trace[j].step, shutdown.trace[j].id)

\* C1: in onModuleDestroy the closes are attempted one after the other in the
\* order stdio transport, streaming sessions, sink; when the sink's close is
\* started, the stdio close (if a stdio transport was held) and the close of
\* every session that was active when the session teardown began have
\* finished, whether they succeeded or failed.
C1_ShutdownOrder ==
    /\ \A j \in 1..Len(shutdown.trace) :
         /\ (shutdown.trace[j].ev = "start" /\ j < Len(shutdown.trace)) => CloseEndsNext(j)
         /\ shutdown.trace[j].ev = "end" =>
              j > 1 /\ shutdown.trace[j - 1] = Event("start", shutdown.trace[j].step, shutdown.trace[j].id)
         /\ j > 1 => Phase(shutdown.trace[j - 1].step) <= Phase(shutdown.trace[j].step)
    /\ TraceHas("start", "sink", 0) =>
         /\ shutdown.hadStdio => TraceHas("end", "stdio", 0)
         /\ \A s \in Range(shutdown.activeAtTeardown) : TraceHas("end", "session", s)

C1_Witness ==
    /\ pc = "SinkClosing"
    /\ shutdown.hadStdio
    /\ Len(shutdown.activeAtTeardown) >= 2

\* the close of the stdio transport / of a session of the snapshot failed
StdioCloseFailed ==
    shutdown.hadStdio /\ TraceHas("end", "stdio", 0) /\ stdioTransport # "null"

SessionCloseFailed(s) == TraceHas("end", "session", s) /\ Open(s)

\* C2: whatever closes fail, onModuleDestroy attempts every later step, calls
\* the sink's close exactly once and returns without raising.
C2_BestEffortShutdown ==
    /\ server.closeCalls <= 1
    /\ pc = "Closed" =>
         /\ ~shutdown.raised
         /\ server.closeCalls = 1
         /\ TraceHas("end", "sink", 0)
         /\ shutdown.hadStdio => TraceHas("start", "stdio", 0)
         /\ \A s \in Range(shutdown.activeAtTeardown) : TraceHas("start", "session", s)

C2_Witness ==
    /\ pc = "Closed"
    /\ StdioCloseFailed
    /\ \E s \in Range(shutdown.snapshot) : SessionCloseFailed(s)
    /\ ~server.closed

\* C3: when the sink's close is invoked no stdio transport is held and no
\* streaming session is open.
C3_EmptyAtSinkClose ==
    pc = "SinkClosing" => stdioTransport = "null" /\ adapter.active = <<>>

\* C4: once onModuleDestroy has begun, no streaming transport is connected to
\* the sink and no message is forwarded to a transport.
C4_NoReentryAfterShutdown ==
    [][DestroyBegun =>
         /\ server'.connectCalls = server.connectCalls
         /\ \A i \in 1..MaxRequests :
              reqs'[i].pc = "forwarding" => reqs[i].pc = "forwarding"]_vars

Arrived(kind) == last.kind = kind /\ ~last.resumed

\* C6: a handleMessages call that arrives before any session was opened is
\* answered 503 and forwarded to no transport; a shutdown before any session
\* was opened attempts no session close and does not raise.
C6_BeforeAnySession ==
    /\ Arrived("msg") /\ last.sessionsAtCall = 0 =>
         /\ ~last.pending
         /\ last.status = ServiceUnavailable
         /\ last.session = 0
    /\ \A i \in 1..MaxRequests : reqs[i].pc = "forwarding" => adapter.nextId > 1
    /\ DestroyBegun /\ adapter.nextId = 1 =>
         /\ ~shutdown.raised
         /\ \A k \in 1..Len(shutdown.trace) : shutdown.trace[k].step # "session"

C6_Witness ==
    /\ Arrived("msg")
    /\ last.sessionsAtCall = 0
    /\ last.adapterAtCall
    /\ last.status = ServiceUnavailable

UnknownToken ==
    /\ Arrived("msg")
    /\ last.token # NoToken
    /\ last.token \notin last.activeAtCall

\* C7 as stated: for every set of open sessions, a message whose sessionId
\* matches no open session is answered 404 and reaches no transport.
C7_UnknownSessionIs404 ==
    UnknownToken =>
        /\ ~last.pending
        /\ last.session = 0
        /\ last.status = SessionNotFound

\* C7 amended: a message whose sessionId matches no open session reaches no
\* transport; it is answered 404 when the adapter exists and at least one
\* session is open, and 503 when the service holds no adapter.
C7_UnknownSessionAnswer ==
    UnknownToken =>
        /\ ~last.pending
        /\ last.session = 0
        /\ (last.adapterAtCall /\ last.activeAtCall # {}) => last.status = SessionNotFound
        /\ ~last.adapterAtCall => last.status = ServiceUnavailable

C7_Witness ==
    /\ UnknownToken
    /\ Cardinality(last.activeAtCall) >= 2
    /\ last.status = SessionNotFound

\* C8: every openSession call yields a session id no earlier call yielded
\* (each connect of a streaming transport adds a new id to the sink, and the
\* active set holds no id twice), and a step that closes one session leaves
\* every other open session open and routable.
C8_DistinctIds ==
    /\ Cardinality(server.sessions) = server.connectCalls - init.stdioConnects
    /\ \A j, k \in 1..Len(adapter.active) :
         j # k => adapter.active[j] # adapter.active[k]

C8_IndependentClose ==
    Range(adapter'.active) # Range(adapter.active) =>
        \A s, t \in Range(adapter.active) :
            (s # t /\ s \notin Range(adapter'.active)) =>
                /\ t \in Range(adapter'.active)
                /\ routeMessage(adapter', t).target = t

C8_UniqueSessions == [] C8_DistinctIds /\ [][C8_IndependentClose]_vars

C8_Witness ==
    /\ adapter.nextId >= 4
    /\ Len(adapter.active) = 2
    /\ 1 \notin Range(adapter.active)

\* the response of a failed call: 500 written by the service exactly when no
\* headers had been sent, nothing written by the service when they had
ErrorAnswered ==
    IF last.transportWrote
    THEN last.errWrites = 0 /\ ~last.lateWrite /\ last.status # InternalError
    ELSE last.errWrites = 1 /\ last.status = InternalError

\* C9 as stated: a failure to start a session's transport is raised to the
\* caller of handleSSEConnection, after a 500 was written exactly when the
\* headers had not been sent.
C9_SetupFailurePropagates ==
    last.kind = "sse" /\ last.failed => last.raised /\ ErrorAnswered

\* C9 amended: a failure to start a session's transport is caught by
\* handleSSEConnection, which logs it and returns without raising; a 500 is
\* written exactly when the headers had not been sent, nothing otherwise.
C9_SetupFailureAnswered ==
    last.kind = "sse" /\ last.failed =>
        /\ ~last.raised
        /\ last.logged
        /\ ~last.pending
        /\ ErrorAnswered

C9_Witness ==
    /\ last.kind = "sse"
    /\ last.failed
    /\ last.transportWrote
    /\ last.status = StreamOk

\* C10: a failure raised by the adapter or the sink during
\* handleSSEConnection or handleMessages never leaves the call: the call
\* returns, the error is logged, and a 500 body is written when no response
\* had been sent.
C10_RequestErrorsContained ==
    last.failed =>
        /\ ~last.raised
        /\ last.logged
        /\ ~last.transportWrote => last.status = InternalError /\ last.errWrites = 1

C10_Witness ==
    /\ last.kind = "msg"
    /\ last.failed
    /\ ~last.transportWrote
    /\ last.status = InternalError

\* ------------------------------------------------ capability claims
\* the host method of the latest invocation returned / the value it returned
HostReturned(category) == invocation.category = category /\ ~invocation.outcome.threw

Result == invocation.outcome.value

NoResult == Result.t \in {"null", "undefined"}

\* C11: when the host method of a resource or of a tool returns null or
\* undefined, the wrapper raises an error to the sink and returns no result.
C11_MissingResultFails ==
    (HostReturned("resource") \/ HostReturned("tool")) /\ NoResult =>
        /\ invocation.response.raised = "E_NO_RESULT"
        /\ ~invocation.response.returned
        /\ invocation.response.payload = <<>>

C11_Witness ==
    /\ HostReturned("tool")
    /\ Result = Undefined
    /\ invocation.response.raised = "E_NO_RESULT"

\* the text the claim expects for a result of a tool
C12_Text ==
    CASE Result = Num(0) -> "0"
      [] Result = Num(5) -> "5"
      [] Result = Str("") -> ""
      [] Result = Str("ok") -> "ok"
      [] Result = Bool(FALSE) -> "false"
      [] Result = Bool(TRUE) -> "true"
      [] OTHER -> "[object Object]"

\* C12: a tool result that is neither null/undefined nor an array is handed
\* to the sink as one text entry holding the result coerced to a string; an
\* array result is handed to the sink unchanged as the content list.
C12_ToolResultWrapped ==
    HostReturned("tool") /\ ~NoResult =>
        /\ invocation.response.returned
        /\ IF Result.t = "array"
           THEN invocation.response.payload = Result.items
           ELSE invocation.response.payload = <<[type |-> "text", text |-> C12_Text]>>

C12_Witness ==
    /\ HostReturned("tool")
    /\ Result = Str("ok")
    /\ invocation.response.payload = <<[type |-> "text", text |-> "ok"]>>

\* C13: a resource result r that is not null/undefined is handed to the sink
\* as the content list [r] when r is no array and as r itself when it is,
\* for every such r, the empty string, 0 and false included.
C13_ResourceResultWrapped ==
    HostReturned("resource") /\ ~NoResult =>
        /\ invocation.response.returned
        /\ IF Result.t = "array"
           THEN invocation.response.payload = Result.items
           ELSE invocation.response.payload = <<Result>>

\* the fields the prompt method returned, and those the caller supplied
MethodFields == IF Result.t = "object" THEN Result.fields ELSE {}

Supplied == IF invocation.params.t = "object" THEN invocation.params.fields ELSE {}

\* C14: a prompt invocation returns the shallow merge of the caller's params
\* and the fields the host method returned: a key the method returned has
\* the method's value, any other key of the caller keeps the caller's value,
\* and there is no other key.
C14_PromptMerge ==
    HostReturned("prompt") =>
        /\ invocation.response.returned
        /\ \A e \in MethodFields : e \in invocation.response.payload
        /\ \A e \in Supplied :
             e[1] \notin Keys(MethodFields) => e \in invocation.response.payload
        /\ \A e \in invocation.response.payload : e \in MethodFields \cup Supplied
        /\ \A e, f \in invocation.response.payload : e[1] = f[1] => e = f

C14_Witness ==
    /\ HostReturned("prompt")
    /\ invocation.params = Obj({<<"a", "1">>, <<"b", "2">>})
    /\ Result = Obj({<<"a", "2">>})
    /\ invocation.response.payload = {<<"a", "2">>, <<"b", "2">>}

\* the descriptor a registration was made from
Descriptor(r) ==
    LET methods == providers[r.instance].methods
        m == CHOOSE j \in 1..Len(methods) : methods[j].method = r.method
    IN CASE r.category = "resource" -> methods[m].resource[1]
         [] r.category = "tool" -> methods[m].tool[1]
         [] OTHER -> methods[m].prompt[1]

\* a live provider declares a prompt whose template is empty or blank
BlankPromptDeclared ==
    \E i \in 1..Len(providers) :
        /\ providers[i].instance
        /\ \E j \in 1..Len(providers[i].methods) :
             /\ providers[i].methods[j].prompt # <<>>
             /\ Trim(providers[i].methods[j].prompt[1].template.text) = <<>>

\* C15: a prompt whose template is empty or only white space is never
\* registered with the sink; once the discovery pass has run over it,
\* onModuleInit has failed, no streaming adapter exists and no stdio
\* transport was created or connected; no invocation raises the error.
C15_BlankTemplateHaltsStartup ==
    /\ \A k \in 1..Len(registry) :
         registry[k].category = "prompt" =>
             Trim(Descriptor(registry[k]).template.text) # <<>>
    /\ BlankPromptDeclared /\ pc # "Constructed" =>
         /\ init.error = "E_EMPTY_TEMPLATE"
         /\ pc \notin {"Scanned", "StdioConnecting", "Running"}
         /\ sseAdapter = "null"
         /\ stdioTransport = "null"
         /\ init.stdioCreated = 0
         /\ server.connectCalls = 0
    /\ invocation.response.raised # "E_EMPTY_TEMPLATE"

C15_Witness ==
    /\ providers = UntemplatedProviders(Text(<<" ", " ">>))
    /\ enableStdio = "true"
    /\ pc = "InitFailed"
    /\ init.error = "E_EMPTY_TEMPLATE"
    /\ Len(registry) = 1

\* C16: the sink never holds a capability whose name is empty.
C16_NoEmptyName ==
    \A k \in 1..Len(registry) : registry[k].name # ""

\* C17: when the host method of a resource, a tool or a prompt throws, the
\* wrapper logs one line carrying the capability's category and name and
\* raises the very same error to the sink; it does not return a result.
C17_HostErrorReraised ==
    invocation.outcome.threw =>
        /\ invocation.response.raised = invocation.outcome.error
        /\ ~invocation.response.returned
        /\ invocation.response.log =
               <<LogLine(invocation.category, invocation.name, invocation.outcome.error)>>

C17_Witness ==
    /\ invocation.category = "prompt"
    /\ invocation.outcome = Throws("E_HOST_B")
    /\ invocation.response.raised = "E_HOST_B"

\* C18: two capabilities of one category registered under one name do not
\* make discovery fail: start-up goes on, and the sink holds one handler
\* under that name, the one registered second.
C18_SecondRegistrationWins ==
    providers = DuplicateProviders /\ pc # "Constructed" =>
        /\ init.error = None
        /\ pc # "InitFailed"
        /\ \E k \in 1..Len(registry) :
             /\ Held(registry, "tool", "add") = {k}
             /\ registry[k].method = "plus"
        /\ \E k \in 1..Len(registry) :
             /\ Held(registry, "prompt", "greeting") = {k}
             /\ registry[k].method = "salute"

\* the parameters declared for the tool `declared`, when the providers are
\* those of DeclaredProviders
DeclaredEntries ==
    IF Len(providers) = 1
    THEN IF providers[1].methods[1].method = "declared"
         THEN providers[1].methods[1].tool[1].parameters
         ELSE <<>>
    ELSE <<>>

\* C19: whatever the declared parameters are, normalisation raises nothing:
\* start-up does not fail, and the tool is registered with a validator for
\* every declared parameter.
C19_NormalisationTotal ==
    DeclaredEntries # <<>> /\ pc # "Constructed" =>
        /\ init.error = None
        /\ \E k \in 1..Len(registry) :
             /\ registry[k].name = "declared"
             /\ Len(registry[k].schema) = Len(DeclaredEntries[1])
             /\ \A i \in 1..Len(registry[k].schema) : registry[k].schema[i].schema.zod

\* what the claim expects of the parameter stored for a declaration of one
\* of the recognised shapes
C20_Expected(value, schema) ==
    CASE value.t = "string" /\ value.s \in SimpleParameterTypes ->
           schema = [zod |-> TRUE, kind |-> value.s, opt |-> 0]
      [] value.t = "string" /\ value.s = "string?" ->
           schema = [zod |-> TRUE, kind |-> "string", opt |-> 1]
      [] value.t = "string" /\ value.s = "number?" ->
           schema = [zod |-> TRUE, kind |-> "number", opt |-> 1]
      [] value.t = "definition" /\ value.of = "string"
            /\ value.s \in SimpleParameterTypes ->
           schema = [zod |-> TRUE, kind |-> value.s,
                     opt |-> IF value.optional = "true" THEN 1 ELSE 0]
      [] value.t = "definition" /\ value.of = "validator" ->
           schema = [zod |-> TRUE, kind |-> value.kind,
                     opt |-> value.opt + (IF value.optional = "true" THEN 1 ELSE 0)]
      [] value.t = "validator" ->
           schema = [zod |-> TRUE, kind |-> value.kind, opt |-> value.opt]
      [] OTHER -> TRUE

\* C20: for the recognised shapes the parameter registered is: the kind of
\* a bare type name, required; the base kind of a type name with `?`,
\* optional; for a definition object the kind of its type (a validator
\* given as type is kept as it is), optional exactly when `optional` is
\* true; a validator given directly is kept as it is.
C20_RecognisedShapes ==
    \A k \in 1..Len(registry) :
        registry[k].name = "declared" =>
            /\ Len(registry[k].schema) = Len(DeclaredEntries[1])
            /\ \A i \in 1..Len(registry[k].schema) :
                 /\ registry[k].schema[i].key = DeclaredEntries[1][i].key
                 /\ C20_Expected(DeclaredEntries[1][i].value, registry[k].schema[i].schema)

C20_Witness ==
    /\ DeclaredEntries # <<>>
    /\ \E k \in 1..Len(registry) :
         /\ registry[k].name = "declared"
         /\ Len(registry[k].schema) = 2
         /\ DeclaredEntries[1][1].value = TypeName("number?")
         /\ DeclaredEntries[1][2].value = Definition(TypeName("string"), "truthy")
         /\ registry[k].schema[2].schema = [zod |-> TRUE, kind |-> "string", opt |-> 0]

\* the declarations of an optional string parameter: 'string?', a definition
\* of type 'string' with optional true, an optional string validator given
\* directly, a string validator in a definition with optional true
OptionalStringShapes ==
    {TypeName("string?"),
     Definition(TypeName("string"), "true"),
     Validator("string", 1),
     Definition(Validator("string", 0), "true")}

\* inputs a validator is asked about, and whether a validator of a kind
\* under opt optional() wrappers accepts one: an optional validator accepts
\* undefined, and otherwise what its kind accepts
Inputs == {Str("x"), Str(""), Num(5), Bool(TRUE), Null, Undefined}

Accepts(schema, input) ==
    /\ schema.zod
    /\ \/ schema.opt > 0 /\ input.t = "undefined"
       \/ schema.kind = "any"
       \/ schema.kind = input.t

\* C21: each declaration shape of an optional string parameter is normalised
\* to a parameter of kind string that is not required: all of them accept
\* exactly the strings and the absent value.
C21_OptionalStringShapes ==
    \A k \in 1..Len(registry) :
        registry[k].name = "declared" =>
            \A i \in 1..Len(registry[k].schema) :
                DeclaredEntries[1][i].value \in OptionalStringShapes =>
                    /\ registry[k].schema[i].schema.zod
                    /\ registry[k].schema[i].schema.kind = "string"
                    /\ registry[k].schema[i].schema.opt >= 1
                    /\ \A input \in Inputs :
                         Accepts(registry[k].schema[i].schema, input)
                             <=> input.t \in {"string", "undefined"}

C21_Witness ==
    /\ DeclaredEntries # <<>>
    /\ \E k \in 1..Len(registry) :
         /\ registry[k].name = "declared"
         /\ Len(registry[k].schema) = 2
         /\ DeclaredEntries[1][1].value = TypeName("string?")
         /\ DeclaredEntries[1][2].value = Definition(Validator("string", 0), "true")
         /\ registry[k].schema[1].schema = registry[k].schema[2].schema
         /\ registry[k].schema[1].schema = [zod |-> TRUE, kind |-> "string", opt |-> 1]

\* the method `handle` as the scan reads it
Handle == providers[1].methods[1]

\* what the decorators written on `handle` put in the slot of a category:
\* the descriptor given to the decorator of that category applied last, or
\* nothing when no decorator of the category is written
Given(category) ==
    LET written == {k \in 1..Len(decorators) : decorators[k].category = category}
    IN IF written = {} THEN <<>>
       ELSE <<decorators[CHOOSE k \in written : \A j \in written : j <= k].props>>

\* C22: each decorator stores the descriptor it is given under the slot of
\* its own category, and reading the slot returns that descriptor with its
\* name, description, parameters and template unchanged; a slot whose
\* decorator is not written on the method holds nothing.
C22_DecoratorsStoreDescriptor ==
    decorators # <<>> =>
        /\ Handle.resource = Given("resource")
        /\ Handle.tool = Given("tool")
        /\ Handle.prompt = Given("prompt")

C22_Witness ==
    /\ Len(decorators) = 1
    /\ decorators[1].category = "prompt"
    /\ Handle.resource = <<>>
    /\ Handle.tool = <<>>
    /\ Handle.prompt[1].name = "greeting"
    /\ Handle.prompt[1].description = "Greets"
    /\ Handle.prompt[1].template = Text(<<"H", "i">>)
    /\ Handle.prompt[1].parameters = <<>>
    /\ pc = "Scanned"

\* the descriptors the live providers carry, with their category
Annotated ==
    UNION {UNION {
           {<<"resource", providers[i].methods[j].resource[k].name>> :
               k \in 1..Len(providers[i].methods[j].resource)}
           \cup {<<"tool", providers[i].methods[j].tool[k].name>> :
               k \in 1..Len(providers[i].methods[j].tool)}
           \cup {<<"prompt", providers[i].methods[j].prompt[k].name>> :
               k \in 1..Len(providers[i].methods[j].prompt)} :
           j \in 1..Len(providers[i].methods)} :
         i \in {i \in 1..Len(providers) : providers[i].instance}}

\* a transport exists or was connected to the sink
TransportUp ==
    \/ sseAdapter # "null"
    \/ stdioTransport # "null"
    \/ server.stdioConnected
    \/ server.connectCalls > 0
    \/ server.sessions # {}
    \/ adapter.nextId > 1

DiscoveryFailed == pc = "InitFailed" /\ init.connectError = None

\* C23: the streaming adapter exists and a transport is connected to the
\* sink only when the discovery pass has ended without error and the sink
\* holds a registration for every descriptor of every provider with an
\* instance; when discovery has failed no adapter and no transport exists
\* and nothing was connected to the sink.
C23_StartupOrdering ==
    /\ TransportUp =>
         /\ pc \notin {"Constructed", "Scanned"}
         /\ ~DiscoveryFailed
         /\ \A c \in Annotated : Held(registry, c[1], c[2]) # {}
    /\ (pc = "Constructed" \/ DiscoveryFailed) => ~TransportUp

C23_Witness ==
    /\ pc = "StdioConnecting"
    /\ sseAdapter = "adapter"
    /\ server.stdioConnected
    /\ Annotated = {<<"tool", "add">>, <<"prompt", "greeting">>}
    /\ Len(registry) = 2

\* the session teardown of onModuleDestroy is over
TeardownOver == pc \in {"SinkClosing", "Closed"}

\* the number of closes the teardown has started for session s
CloseAttempts(s) ==
    Cardinality({k \in 1..Len(shutdown.trace) :
                    shutdown.trace[k] = Event("start", "session", s)})

\* C24: once the session teardown is over, the close of every session that
\* was active when it started was attempted exactly once, whatever closes
\* failed; no session is left in the active set and none is routable.
C24_TeardownClosesAll ==
    TeardownOver =>
        /\ \A s \in Range(shutdown.activeAtTeardown) : CloseAttempts(s) = 1
        /\ adapter.active = <<>>
        /\ sseAdapter = "null"

\* the handleMessages call of the step just taken was forwarded to the
\* transport of a session
Forwarded == Arrived("msg") /\ last.pending

\* C25: a message is forwarded only to the transport of a session whose
\* connect to the sink has completed (the transport has started) and that
\* is open when the message arrives.
C25_NoHalfRegisteredSession ==
    Forwarded =>
        /\ last.session \in adapter.started
        /\ last.session \in last.activeAtCall

\* the requests suspended inside the transport of session s
InTransport(s) ==
    {j \in 1..MaxRequests : reqs[j].pc = "forwarding" /\ reqs[j].session = s}

\* the next request to arrive
NextArrival(j) ==
    /\ reqs[j].pc = "idle"
    /\ IF j = 1 THEN TRUE ELSE reqs[j - 1].pc # "idle"

SlotOf(i, j, category) ==
    CASE category = "resource" -> providers[i].methods[j].resource
      [] category = "tool" -> providers[i].methods[j].tool
      [] category = "prompt" -> providers[i].methods[j].prompt

Slots ==
    UNION {{sl \in {[i |-> i, j |-> j, category |-> c] :
                      j \in 1..Len(providers[i].methods),
                      c \in {"resource", "tool", "prompt"}} :
               SlotOf(sl.i, sl.j, sl.category) # <<>>} :
           i \in 1..Len(providers)}

SlotName(sl) == SlotOf(sl.i, sl.j, sl.category)[1].name

\* the registrations the sink holds that are bound to the slot's pair
BoundTo(sl) ==
    {k \in 1..Len(registry) :
        /\ registry[k].category = sl.category
        /\ registry[k].instance = sl.i
        /\ registry[k].method = providers[sl.i].methods[sl.j].method}

\* no other slot of a live provider gives the slot's name in its category
NameUnique(sl) ==
    \A other \in Slots :
        (providers[other.i].instance /\ other.category = sl.category
            /\ SlotName(other) = SlotName(sl)) => other = sl

DiscoveryDone == pc \in {"Scanned", "StdioConnecting", "Running"}

\* C27: when the discovery pass has run, every slot that carries a
\* descriptor on a method of a provider with an instance has exactly one
\* registration of its category bound to its (instance, method) pair and
\* made under the descriptor's name (names being unique in the category),
\* a method with several slots has one for each; the sink holds no other
\* registration: none for a provider without instance, none for a method
\* without descriptor.
C27_EachSlotRegistered ==
    /\ DiscoveryDone =>
          \A sl \in Slots :
              (providers[sl.i].instance /\ NameUnique(sl)) =>
                  /\ Cardinality(BoundTo(sl)) = 1
                  /\ \A k \in BoundTo(sl) : registry[k].name = SlotName(sl)
    /\ \A k \in 1..Len(registry) :
          \E sl \in Slots : providers[sl.i].instance /\ k \in BoundTo(sl)

C27_Witness ==
    /\ DiscoveryDone
    /\ Len(decorators) = 3
    /\ Len(registry) = 3
    /\ \A k \in 1..3 : registry[k].instance = 1 /\ registry[k].method = "handle"
    /\ {registry[k].category : k \in 1..3} = {"resource", "tool", "prompt"}

\* onModuleInit has failed
StartupFailed == init.error # None

\* C28: once onModuleInit has failed, a call of handleSSEConnection or
\* handleMessages that arrives is answered 503 by the service and reaches no
\* transport, and onModuleDestroy finds no stdio transport to close.
C28_NoServiceAfterFailedStartup ==
    StartupFailed =>
        /\ (Arrived("sse") \/ Arrived("msg")) =>
             /\ ~last.pending
             /\ last.session = 0
             /\ last.status = ServiceUnavailable
             /\ last.errWrites = 1
             /\ ~last.transportWrote
        /\ stdioTransport = "null"
        /\ DestroyBegun => ~shutdown.hadStdio

\* the service wrote the 503 answer of its own guard to the call just taken
Refused == last.status = ServiceUnavailable /\ last.errWrites = 1

\* C29: the service writes no status or body to a response whose headers
\* were sent and at most one error answer (503 or 500) per call; the call it
\* answers 503 found no adapter, returns at once, and leaves the adapter's
\* sessions and the sink's connections as they were.
C29_GuardedErrorWrites ==
    /\ ~last.lateWrite
    /\ last.errWrites <= 1
    /\ last.errWrites = 1 =>
         /\ last.status \in {ServiceUnavailable, InternalError}
         /\ ~last.transportWrote
    /\ last.transportWrote => last.status \notin {0, InternalError}
    /\ Refused =>
         /\ ~last.adapterAtCall
         /\ ~last.resumed
         /\ ~last.pending
         /\ ~last.failed
         /\ last.session = 0
         /\ adapter.nextId - 1 = last.sessionsAtCall
         /\ Range(adapter.active) = last.activeAtCall
         /\ Cardinality(server.sessions) = last.sessionsAtCall

C29_Witness ==
    /\ last.kind = "msg"
    /\ last.failed
    /\ last.transportWrote
    /\ last.status = BadRequest
    /\ last.errWrites = 0

====
